---- MODULE Spec2Model ----
(***************************************************************************)
(* A model of the synchronisation engine of SSAScoutTool:                  *)
(*   DataAggregator.sync_league_data  (data_aggregator.py)                 *)
(*   DatabaseManager.log_sync         (database_manager.py)                *)
(*   the four source adapters' scrape_league, as far as the aggregator     *)
(*   sees them (a candidate list, an empty list, or an exception).         *)
(*                                                                         *)
(* Python values are encoded as follows.                                   *)
(*   str          a sequence of one-character strings, "a b" = <<"a"," ","b">> *)
(*   Optional[x]  None is <<>>, a value v is <<v>>  (None, Some)           *)
(*   dict         a function from the keys that are present                *)
(*   ordered dict a sequence of <<key, value>> pairs in insertion order    *)
(*   float        progress fractions in thousandths, ratings in hundredths *)
(*   exception    the name of the exception class, "" when none was raised *)
(*                                                                         *)
(* What can fail: an adapter's request or parse, cursor.execute and        *)
(* conn.commit() on the players table, and driver.quit(); key derivation   *)
(* fails on the candidates it cannot handle.  log_sync and the progress    *)
(* callback do not fail.                                                   *)
(***************************************************************************)
EXTENDS Integers, Sequences, FiniteSets, TLC

VARIABLES
    pc,             \* position of the thread that runs sync_league_data
    asa,            \* self.asa is not None (ASA_API_KEY configured)
    futures,        \* the futures dict: the sources submitted, in insertion order
    task,           \* per source: "none", "queued", "running", "done" (executor work item)
    future,         \* per source: what future.result() returns once the task is done
    fetched,        \* per source: what the adapter's scrape_league did (history)
    calls,          \* per source: how many times its scrape_league was invoked (history)
    driver,         \* sofascore.driver is not None
    sync_id,        \* the id log_sync returned for the 'started' row
    results,        \* the results dict of sync_league_data
    source_data,    \* the source_data dict, in insertion order
    completed,      \* the loop counter of the collection loop
    merged_players, \* the list returned by _merge_player_data
    exc,            \* the exception the except clause caught, "" if none
    faults,         \* which collaborators failed during this sync (history)
    overtaken,      \* some adapter finished before one submitted earlier (history)
    ledger,         \* the sync_history table, rows in id order
    players,        \* the players table: a function from external_id to row
    progress,       \* the calls of progress_callback so far: <<fraction, stage>>
    now,            \* datetime.now(), a logical clock
    key_calls,      \* the calls of _generate_player_key made directly: arguments, result
    md_source_data, \* _merge_player_data called directly: its source_data argument
    md_folded,      \* ... how many candidates the nested loops have folded
    md_merged,      \* ... its local merged_players, an ordered dict key -> record
    md_final_list,  \* ... its local final_list
    md_exc,         \* ... the exception that left it, "" if none
    md_pc,          \* ... "idle", "fold", "returned" or "raised"
    refused,        \* the positions of the records the database refused in the save (history)
    cache,          \* the cache table: a function from key to [value, expiry, created_at]
    clock,          \* datetime.now() as the cache operations read it
    cache_call,     \* the last cache operation: what it was called with, met and returned
    cache_sets      \* per key: the value and expiry of the last cache_set on it (history)

\* the cache table and the record of its use
cache_vars == <<cache, clock, cache_call, cache_sets>>

\* the state of the direct calls of the pure functions
pure_vars == <<key_calls, md_source_data, md_folded, md_merged, md_final_list,
               md_exc, md_pc>>

\* the state of sync_league_data and of its collaborators
sync_vars == <<pc, asa, futures, task, future, fetched, calls, driver, sync_id, results,
               source_data, completed, merged_players, exc, faults, overtaken, ledger,
               players, progress, now, refused>>

vars == <<pc, asa, futures, task, future, fetched, calls, driver, sync_id, results,
          source_data, completed, merged_players, exc, faults, overtaken, ledger,
          players, progress, now, key_calls, md_source_data, md_folded, md_merged,
          md_final_list, md_exc, md_pc, refused, cache, clock, cache_call, cache_sets>>

-----------------------------------------------------------------------------
(* Python values *)

None == <<>>
Some(v) == <<v>>
IsNone(x) == x = <<>>
Val(x) == x[1]

\* dict.get(key, default); the default is itself an Optional value
Get(d, k, default) == IF k \in DOMAIN d THEN d[k] ELSE default

\* d[k] = v on a dict
Put(d, k, v) == (k :> v) @@ d

\* the empty dict
EmptyDict == [k \in {} |-> None]

\* ordered dict: lookup of the index of a key, 0 when absent
RECURSIVE IndexOfKey(_, _, _)
IndexOfKey(od, k, i) ==
    IF i > Len(od) THEN 0
    ELSE IF od[i][1] = k THEN i
    ELSE IndexOfKey(od, k, i + 1)

HasKey(od, k) == IndexOfKey(od, k, 1) # 0
Lookup(od, k) == od[IndexOfKey(od, k, 1)][2]

\* od[k] = v: replaces in place, or appends a new key at the end
Store(od, k, v) ==
    IF HasKey(od, k)
    THEN [od EXCEPT ![IndexOfKey(od, k, 1)] = <<k, v>>]
    ELSE Append(od, <<k, v>>)

Keys(od) == {od[i][1] : i \in 1..Len(od)}

-----------------------------------------------------------------------------
(* Strings *)

Space == " "

\* str.lower() on the letters of the model's alphabet
LowerChar(c) ==
    CASE c = "A" -> "a"
      [] c = "B" -> "b"
      [] c = "X" -> "x"
      [] OTHER -> c

Lower(s) == [i \in 1..Len(s) |-> LowerChar(s[i])]

RECURSIVE LStrip(_)
LStrip(s) ==
    IF s # <<>> /\ Head(s) = Space THEN LStrip(Tail(s)) ELSE s

RECURSIVE RStrip(_)
RStrip(s) ==
    IF s # <<>> /\ s[Len(s)] = Space THEN RStrip(SubSeq(s, 1, Len(s) - 1)) ELSE s

\* str.strip()
Strip(s) == RStrip(LStrip(s))

\* str.split(): the maximal runs of non-whitespace characters
RECURSIVE SplitFrom(_, _, _)
SplitFrom(s, cur, acc) ==
    IF s = <<>>
    THEN IF cur = <<>> THEN acc ELSE Append(acc, cur)
    ELSE IF Head(s) = Space
         THEN SplitFrom(Tail(s), <<>>, IF cur = <<>> THEN acc ELSE Append(acc, cur))
         ELSE SplitFrom(Tail(s), Append(cur, Head(s)), acc)

Split(s) == SplitFrom(s, <<>>, <<>>)

-----------------------------------------------------------------------------
(* DataAggregator._generate_player_key *)

Underscore == "_"

\* name and club are what player.get('name', '') and player.get('club', '')
\* gave: None or a string.  The result is the key, or the exception raised:
\* None.lower() raises AttributeError, n[0] on an empty token list IndexError.
generate_player_key(name, club) ==
    IF IsNone(name) THEN [exc |-> "AttributeError", key |-> <<>>]
    ELSE LET n == Split(Strip(Lower(Val(name)))) IN
         IF n = <<>> THEN [exc |-> "IndexError", key |-> <<>>]
         ELSE LET key_name == IF Len(n) > 1
                              THEN n[1] \o <<Underscore>> \o n[Len(n)]
                              ELSE n[1]
              IN IF IsNone(club) THEN [exc |-> "AttributeError", key |-> <<>>]
                 ELSE [exc |-> "",
                       key |-> key_name \o <<Underscore>> \o Strip(Lower(Val(club)))]

-----------------------------------------------------------------------------
(* DataAggregator._merge_player_info *)

\* the field list without 'rating'
fields_NoRating == <<"name", "age", "position", "club", "nationality", "market_value",
                     "goals", "assists", "matches", "minutes_played",
                     "yellow_cards", "red_cards">>

fields == <<"name", "age", "position", "club", "nationality", "market_value",
            "rating", "goals", "assists", "matches", "minutes_played",
            "yellow_cards", "red_cards">>

id_fields == <<"fbref_id", "transfermarkt_id", "sofascore_id", "asa_id">>

stats == <<"xg", "xa", "xg_per_90", "xa_per_90", "key_passes", "dribbles">>

\* the newer value taken whatever the older one is
Max_Newest(a, b) == b

Max(a, b) == IF a >= b THEN a ELSE b

\* round(num / den, 1) on a value given in hundredths as the fraction num/den;
\* the result is in hundredths.  An exact tie goes to the even tenth, which is
\* what Python does on the ties a float holds exactly (x.25, x.75).
Round1(num, den) ==
    LET unit == 10 * den
        q    == num \div unit
        r    == num % unit
    IN  IF 2 * r < unit THEN 10 * q
        ELSE IF 2 * r > unit THEN 10 * (q + 1)
        ELSE IF q % 2 = 0 THEN 10 * q ELSE 10 * (q + 1)

\* `f in new_data and new_data[f] is not None`
Supplies(new_data, f) == f \in DOMAIN new_data /\ ~IsNone(new_data[f])

\* one iteration of `for f in fields`
MergeField(merged, new_data, f) ==
    IF ~Supplies(new_data, f) THEN merged
    ELSE IF f = "market_value" /\ f \in DOMAIN merged
         THEN Put(merged, f, Some(Max(Val(merged[f]), Val(new_data[f]))))
    ELSE IF f = "rating" /\ f \in DOMAIN merged
         THEN Put(merged, f, Some(Round1(Val(merged[f]) + Val(new_data[f]), 2)))
    ELSE IF f \notin DOMAIN merged \/ IsNone(merged[f])
         THEN Put(merged, f, new_data[f])
    ELSE merged

\* an id taken over whenever it is not None, the empty string included
MergeId_NotNone(merged, new_data, idf) ==
    IF Supplies(new_data, idf) THEN Put(merged, idf, new_data[idf]) ELSE merged

\* one iteration of `for idf in [...]`: `idf in new_data and new_data[idf]`
MergeId(merged, new_data, idf) ==
    IF idf \in DOMAIN new_data /\ ~IsNone(new_data[idf]) /\ Val(new_data[idf]) # ""
    THEN Put(merged, idf, new_data[idf])
    ELSE merged

\* one iteration of `for s in stats`
MergeStat(merged, new_data, s) ==
    IF Supplies(new_data, s) THEN Put(merged, s, new_data[s]) ELSE merged

\* `for f in fields:`
RECURSIVE MergeFields(_, _, _)
MergeFields(merged, new_data, fs) ==
    IF fs = <<>> THEN merged
    ELSE MergeFields(MergeField(merged, new_data, Head(fs)), new_data, Tail(fs))

\* `for idf in ['fbref_id', 'transfermarkt_id', 'sofascore_id', 'asa_id']:`
RECURSIVE MergeIds(_, _, _)
MergeIds(merged, new_data, ids) ==
    IF ids = <<>> THEN merged
    ELSE MergeIds(MergeId(merged, new_data, Head(ids)), new_data, Tail(ids))

\* `for s in stats:`
RECURSIVE MergeStats(_, _, _)
MergeStats(merged, new_data, ss) ==
    IF ss = <<>> THEN merged
    ELSE MergeStats(MergeStat(merged, new_data, Head(ss)), new_data, Tail(ss))

\* the fold without `merged['sources'][source] = new_data`
merge_player_info_NoSources(merged, new_data, source) ==
    LET m1 == MergeFields(merged, new_data, fields)
        m2 == MergeIds(m1, new_data, id_fields)
    IN  MergeStats(m2, new_data, stats)

merge_player_info(merged, new_data, source) ==
    LET m0 == [merged EXCEPT !["sources"] = Put(merged["sources"], source, new_data)]
        m1 == MergeFields(m0, new_data, fields)
        m2 == MergeIds(m1, new_data, id_fields)
    IN  MergeStats(m2, new_data, stats)

-----------------------------------------------------------------------------
(* DataAggregator._merge_player_data *)

\* the inner loop body for one player of one source; acc is
\* [exc, merged_players] with merged_players an ordered dict key -> record
MergePlayer(acc, player, source, league, t) ==
    IF acc.exc # "" THEN acc
    ELSE LET k == generate_player_key(Get(player, "name", Some(<<>>)),
                                      Get(player, "club", Some(<<>>)))
         IN IF k.exc # "" THEN [acc EXCEPT !.exc = k.exc]
            ELSE LET fresh == [league |-> league, sources |-> EmptyDict,
                               last_updated |-> t]
                     cur == IF HasKey(acc.merged_players, k.key)
                            THEN Lookup(acc.merged_players, k.key) ELSE fresh
                 IN [acc EXCEPT !.merged_players =
                        Store(acc.merged_players, k.key,
                              merge_player_info(cur, player, source))]

RECURSIVE MergeSourcePlayers(_, _, _, _, _)
MergeSourcePlayers(acc, ps, source, league, t) ==
    IF ps = <<>> THEN acc
    ELSE MergeSourcePlayers(MergePlayer(acc, Head(ps), source, league, t),
                            Tail(ps), source, league, t)

RECURSIVE MergeSources(_, _, _, _)
MergeSources(acc, sd, league, t) ==
    IF sd = <<>> THEN acc
    ELSE MergeSources(MergeSourcePlayers(acc, sd[1][2], sd[1][1], league, t),
                      Tail(sd), league, t)

\* `s.get('rating')` is truthy
HasUsableRating(rec) ==
    "rating" \in DOMAIN rec /\ ~IsNone(rec["rating"]) /\ Val(rec["rating"]) # 0

RECURSIVE SumRatings(_, _)
SumRatings(srcs, S) ==
    IF S = {} THEN 0
    ELSE LET s == CHOOSE x \in S : TRUE
         IN Val(srcs[s]["rating"]) + SumRatings(srcs, S \ {s})

\* a back-fill that gives a record without rating the rating 0
BackFill_Default(pdata) ==
    IF "rating" \notin DOMAIN pdata THEN Put(pdata, "rating", Some(0)) ELSE pdata

\* the body of `for pdata in merged_players.values()`
BackFill(pdata) ==
    IF "rating" \notin DOMAIN pdata /\ DOMAIN pdata["sources"] # {}
    THEN LET rated == {s \in DOMAIN pdata["sources"] :
                          HasUsableRating(pdata["sources"][s])}
         IN IF rated # {}
            THEN Put(pdata, "rating",
                     Some(Round1(SumRatings(pdata["sources"], rated),
                                 Cardinality(rated))))
            ELSE pdata
    ELSE pdata

\* source_data is an ordered dict source -> candidate list; the result is
\* [exc, players]: the exception that escaped, or the final list
merge_player_data(sd, league, t) ==
    LET r == MergeSources([exc |-> "", merged_players |-> <<>>], sd, league, t)
    IN  IF r.exc # "" THEN [exc |-> r.exc, players |-> <<>>]
        ELSE [exc |-> "",
              players |-> [i \in 1..Len(r.merged_players) |->
                              BackFill(r.merged_players[i][2])]]

-----------------------------------------------------------------------------
(* Configuration and the source adapters *)

\* Config.MAX_CONCURRENT_REQUESTS, the executor's max_workers
MAX_CONCURRENT_REQUESTS == 3

League == <<"M", "L", "S">>

\* the keys of the futures dict in the order sync_league_data submits them
SubmitOrder(withAsa) ==
    IF withAsa THEN <<"fbref", "transfermarkt", "sofascore", "asa">>
    ELSE <<"fbref", "transfermarkt", "sofascore">>

AllSources == {"fbref", "transfermarkt", "sofascore", "asa"}

\* the source_name argument of _fetch_with_error_handling
SourceName(s) ==
    CASE s = "fbref" -> "FBref"
      [] s = "transfermarkt" -> "Transfermarkt"
      [] s = "sofascore" -> "Sofascore"
      [] s = "asa" -> "ASA"

NameAB == <<"a", " ", "b">>
NameABUpper == <<"A", " ", "B">>
NameB == <<"b">>
ClubX == <<"x">>

\* candidate records with the keys each adapter's parser emits
FbrefA == [name |-> Some(NameAB), fbref_id |-> Some("f1"), club |-> Some(ClubX),
           age |-> Some(24), goals |-> Some(3), xg |-> Some(310)]
FbrefB == [name |-> Some(NameB), fbref_id |-> Some("f2"), club |-> Some(ClubX),
           age |-> Some(30), goals |-> Some(0), xg |-> Some(0)]
TmA == [name |-> Some(NameABUpper), transfermarkt_id |-> Some("t1"),
        position |-> None, age |-> Some(25), club |-> Some(ClubX),
        market_value |-> Some(200)]
TmNoClub == [name |-> Some(NameB), transfermarkt_id |-> None, position |-> None,
             age |-> None, club |-> None, market_value |-> Some(0)]
SofaA == [name |-> Some(NameAB), sofascore_id |-> Some("s1"),
          rating |-> Some(750), goals |-> Some(4), matches |-> Some(10)]
AsaA == [name |-> Some(NameAB), asa_id |-> Some("a1"), goals |-> Some(5),
         xg |-> Some(500), key_passes |-> Some(7)]
AsaNoName == [name |-> None, asa_id |-> Some("a2"), xa |-> Some(120),
              key_passes |-> Some(2)]

\* what a source's pages can make its parser return
CandidateLists(s) ==
    CASE s = "fbref" -> {<<FbrefA>>, <<FbrefA, FbrefB>>}
      [] s = "transfermarkt" -> {<<TmA>>, <<TmA, TmNoClub>>}
      [] s = "sofascore" -> {<<SofaA>>}
      [] s = "asa" -> {<<AsaA>>, <<AsaNoName>>}

\* What one invocation of an adapter's scrape_league can meet:
\*   "ok"       the request succeeds and the page parses to a candidate list,
\*   "timeout"  the request times out or fails at the transport layer,
\*   "error"    some other exception is raised while fetching or parsing.
\* drv says whether the Sofascore scraper got its Chrome driver initialised.
Outcomes(s) ==
    [kind : {"ok"}, data : CandidateLists(s), drv : {s = "sofascore"}]
    \cup [kind : {"timeout"}, data : {<<>>},
          drv : IF s = "sofascore" THEN BOOLEAN ELSE {FALSE}]
    \cup [kind : {"error"}, data : {<<>>},
          drv : IF s = "sofascore" THEN BOOLEAN ELSE {FALSE}]

\* The adapter's scrape_league on outcome o: [exc, data].
\* BaseScraper.make_request turns a requests.RequestException into None and
\* scrape_league turns None into []; the ASA client does the same in
\* _fetch_xg_data/_fetch_xpass_data.  SofascoreScraper.scrape_league catches
\* every Exception and returns [].
scrape_league(s, o) ==
    CASE o.kind = "ok" -> [exc |-> "", data |-> o.data]
      [] o.kind = "timeout" -> [exc |-> "", data |-> <<>>]
      [] o.kind = "error" ->
            IF s = "sofascore" THEN [exc |-> "", data |-> <<>>]
            ELSE [exc |-> "TypeError", data |-> <<>>]

\* _fetch_with_error_handling without its try/except: the exception leaves
\* the worker and future.result() re-raises it
fetch_with_error_handling_NoCatch(s, o) ==
    LET r == scrape_league(s, o) IN
    [data |-> r.data, error |-> None, raised |-> r.exc]

\* DataAggregator._fetch_with_error_handling: the value of the future.
\* raised is the exception the future re-raises from result(), "" if none.
fetch_with_error_handling(s, o) ==
    LET r == scrape_league(s, o) IN
    IF r.exc = ""
    THEN [data |-> r.data, error |-> None, raised |-> ""]
    ELSE [data |-> <<>>,
          error |-> Some(<<"Failed to fetch from", SourceName(s), r.exc>>),
          raised |-> ""]

NoFuture == [data |-> <<>>, error |-> None, raised |-> ""]
NoOutcome == [kind |-> "none", data |-> <<>>, drv |-> FALSE]

-----------------------------------------------------------------------------
(* DatabaseManager.log_sync and the sync_history table *)

\* the row the INSERT of log_sync adds; id is AUTOINCREMENT
SyncRow(id, league, source, status, records, error, t) ==
    [id |-> id, league |-> league, source |-> source, status |-> status,
     records_synced |-> records, error_message |-> error,
     started_at |-> t, completed_at |-> t]

log_sync(tbl, league, source, status, records, error, t) ==
    Append(tbl, SyncRow(Len(tbl) + 1, league, source, status, records, error, t))

\* how many earlier syncs the ledger may hold when a sync starts
MaxPriorSyncs == 1

RECURSIVE PriorLedger(_)
PriorLedger(n) ==
    IF n = 0 THEN <<>>
    ELSE log_sync(log_sync(PriorLedger(n - 1), League, "all", "started", 0, None, 0),
                  League, "all", "completed", 1, None, 0)

-----------------------------------------------------------------------------
(* DataAggregator._save_players_to_db and the players table *)

\* hashlib.md5(f"{name}_{club}_{league}") taken as injective on the formatted
\* string: the external_id is that string
ExternalId(p, league) ==
    Val(Get(p, "name", Some(<<>>))) \o <<Underscore>>
        \o Val(Get(p, "club", Some(<<>>))) \o <<Underscore>> \o league

\* the tuple of values bound to the INSERT OR REPLACE
PlayerRow(p, league, t) ==
    [external_id |-> ExternalId(p, league),
     name |-> Get(p, "name", None), age |-> Get(p, "age", None),
     position |-> Get(p, "position", None), club |-> Get(p, "club", None),
     league |-> league, nationality |-> Get(p, "nationality", None),
     market_value |-> Get(p, "market_value", Some(0)),
     rating |-> Get(p, "rating", Some(0)), goals |-> Get(p, "goals", Some(0)),
     assists |-> Get(p, "assists", Some(0)), matches |-> Get(p, "matches", Some(0)),
     minutes_played |-> Get(p, "minutes_played", Some(0)),
     pass_accuracy |-> Get(p, "pass_accuracy", None),
     shots_per_game |-> Get(p, "shots_per_game", None),
     key_passes |-> Get(p, "key_passes", None), dribbles |-> Get(p, "dribbles", None),
     aerial_duels |-> Get(p, "aerial_duels", None), tackles |-> Get(p, "tackles", None),
     interceptions |-> Get(p, "interceptions", None),
     clearances |-> Get(p, "clearances", None),
     yellow_cards |-> Get(p, "yellow_cards", Some(0)),
     red_cards |-> Get(p, "red_cards", Some(0)),
     fbref_id |-> Get(p, "fbref_id", None),
     transfermarkt_id |-> Get(p, "transfermarkt_id", None),
     asa_id |-> Get(p, "asa_id", None), sofascore_id |-> Get(p, "sofascore_id", None),
     last_updated |-> t]

\* cursor.execute raises for record i when the database refuses it (i in bad)
\* or when the NOT NULL constraint on name fails; the except clause skips it
UpsertFails(p, i, bad) == i \in bad \/ IsNone(Get(p, "name", None))

RECURSIVE SaveFrom(_, _, _, _, _, _)
SaveFrom(acc, ps, i, league, bad, t) ==
    IF i > Len(ps) THEN acc
    ELSE IF UpsertFails(ps[i], i, bad)
         THEN SaveFrom(acc, ps, i + 1, league, bad, t)
         ELSE SaveFrom([table |-> Put(acc.table, ExternalId(ps[i], league),
                                      PlayerRow(ps[i], league, t)),
                        saved |-> acc.saved + 1],
                       ps, i + 1, league, bad, t)

RECURSIVE FirstFailure(_, _, _)
FirstFailure(ps, i, bad) ==
    IF i > Len(ps) \/ UpsertFails(ps[i], i, bad) THEN i ELSE FirstFailure(ps, i + 1, bad)

\* a save without the try/except around the upsert: the loop ends at the
\* first record that fails
save_players_to_db_Abort(table, ps, league, bad, t) ==
    SaveFrom([table |-> table, saved |-> 0],
             SubSeq(ps, 1, FirstFailure(ps, 1, bad) - 1), 1, league, bad, t)

\* the loop of _save_players_to_db followed by conn.commit(): [table, saved]
save_players_to_db(table, ps, league, bad, t) ==
    SaveFrom([table |-> table, saved |-> 0], ps, 1, league, bad, t)

\* how many records of one batch the database may refuse
MaxUpsertFailures == 1

\* what the sources gave an earlier sync that stored one record (the
\* records_synced of PriorLedger): FBref alone its candidate, or Transfermarkt
\* alone its candidate of the same player
PriorSyncData ==
    {<< <<"fbref", <<FbrefA>>>>, <<"transfermarkt", <<>>>>, <<"sofascore", <<>>>> >>,
     << <<"fbref", <<>>>>, <<"transfermarkt", <<TmA>>>>, <<"sofascore", <<>>>> >>}

\* the players tables that n earlier syncs can have left
RECURSIVE PriorPlayers(_)
PriorPlayers(n) ==
    IF n = 0 THEN {EmptyDict}
    ELSE {save_players_to_db(tbl, merge_player_data(sd, League, 0).players,
                             League, {}, 0).table :
             tbl \in PriorPlayers(n - 1), sd \in PriorSyncData}

-----------------------------------------------------------------------------
(* DataAggregator.sync_league_data *)

\* no direct call of _generate_player_key or _merge_player_data is under way
PureIdle ==
    /\ key_calls = <<>>
    /\ md_source_data = <<>>
    /\ md_folded = 0
    /\ md_merged = <<>>
    /\ md_final_list = <<>>
    /\ md_exc = ""
    /\ md_pc = "idle"

\* no cache operation has been called
NoCall == [op |-> "none"]

\* the cache table is empty and has not been used
CacheIdle ==
    /\ cache = EmptyDict
    /\ clock = 0
    /\ cache_call = NoCall
    /\ cache_sets = EmptyDict

Init ==
    /\ pc = "idle"
    /\ asa \in BOOLEAN
    /\ futures = <<>>
    /\ task = [s \in AllSources |-> "none"]
    /\ future = [s \in AllSources |-> NoFuture]
    /\ fetched = [s \in AllSources |-> NoOutcome]
    /\ calls = [s \in AllSources |-> 0]
    /\ driver = FALSE
    /\ sync_id = 0
    /\ results = EmptyDict
    /\ source_data = <<>>
    /\ completed = 0
    /\ merged_players = <<>>
    /\ exc = ""
    /\ faults = {}
    /\ overtaken = FALSE
    /\ \E n \in 0..MaxPriorSyncs :
          /\ ledger = PriorLedger(n)
          /\ players \in PriorPlayers(n)
    /\ progress = <<>>
    /\ now = 1
    /\ refused = {}
    /\ PureIdle
    /\ CacheIdle

\* progress_callback(fraction, message): the fraction in thousandths and the
\* checkpoint the message belongs to
Report(fraction, stage) == progress' = Append(progress, <<fraction, stage>>)

\* the fraction without the division by total_sources
FetchProgress_NoDivide(done, total_sources) == 100 + 600 * done

\* `progress = 0.1 + (0.6 * completed / total_sources)`
FetchProgress(done, total_sources) == 100 + (600 * done) \div total_sources

\* lines 40-51: the 'started' row, the results dict, the first checkpoint
SyncStart ==
    /\ pc = "idle"
    /\ ledger' = log_sync(ledger, League, "all", "started", 0, None, now)
    /\ sync_id' = Len(ledger')
    /\ results' = [league |-> League, started_at |-> now, sources |-> EmptyDict,
                   total_players |-> 0, errors |-> <<>>]
    /\ Report(100, "start")
    /\ now' = now + 1
    /\ pc' = "submit"
    /\ UNCHANGED <<cache_vars, pure_vars, refused, overtaken, asa, futures, task, future, fetched, calls, driver, source_data,
                   completed, merged_players, exc, faults, players>>

\* lines 57-81: one executor.submit; the work item is queued
Submit ==
    /\ pc = "submit"
    /\ LET order == SubmitOrder(asa)
           s == order[Len(futures) + 1]
       IN /\ futures' = Append(futures, s)
          /\ task' = [task EXCEPT ![s] = "queued"]
          /\ pc' = IF Len(futures') = Len(order) THEN "collect" ELSE "submit"
    /\ UNCHANGED <<cache_vars, pure_vars, refused, overtaken, asa, future, fetched, calls, driver, sync_id, results, source_data,
                   completed, merged_players, exc, faults, ledger, players, progress,
                   now>>

Running == {s \in AllSources : task[s] = "running"}

\* a pool that starts a thread for every work item
WorkerAvailable_Unbounded == TRUE

\* a worker thread is free to take a work item: the pool never runs more
\* than max_workers threads
WorkerAvailable == Cardinality(Running) < MAX_CONCURRENT_REQUESTS

\* the work queue is FIFO: the next item is the earliest submitted one
\* that no worker has taken
NextQueued(s) ==
    \E i \in 1..Len(futures) :
        /\ futures[i] = s
        /\ task[s] = "queued"
        /\ \A j \in 1..(i - 1) : task[futures[j]] # "queued"

\* a worker thread takes the work item of s and calls the adapter
WorkerStart(s) ==
    /\ NextQueued(s)
    /\ WorkerAvailable
    /\ task' = [task EXCEPT ![s] = "running"]
    /\ calls' = [calls EXCEPT ![s] = @ + 1]
    /\ UNCHANGED <<cache_vars, pure_vars, refused, overtaken, pc, asa, futures, future, fetched, driver, sync_id, results,
                   source_data, completed, merged_players, exc, faults, ledger,
                   players, progress, now>>

\* _fetch_with_error_handling returns in the worker: the future is resolved
WorkerFinish(s) ==
    /\ task[s] = "running"
    /\ \E o \in Outcomes(s) :
          /\ fetched' = [fetched EXCEPT ![s] = o]
          /\ future' = [future EXCEPT ![s] = fetch_with_error_handling(s, o)]
          /\ driver' = IF s = "sofascore" THEN (driver \/ o.drv) ELSE driver
    /\ task' = [task EXCEPT ![s] = "done"]
    /\ overtaken' = (overtaken \/ \E j \in 1..Len(futures) :
                        /\ \A i \in 1..j : futures[i] # s
                        /\ task[futures[j]] # "done")
    /\ UNCHANGED <<cache_vars, pure_vars, refused, pc, asa, futures, calls, sync_id, results, source_data,
                   completed, merged_players, exc, faults, ledger, players, progress,
                   now>>

\* a result() that does not wait for the work item
ResultReady_NoWait(s) == TRUE

\* the futures visited as they complete (as_completed), not as inserted
NextFuture_AsCompleted ==
    LET pending == {i \in 1..Len(futures) : ~HasKey(source_data, futures[i])}
        ready == {i \in pending : task[futures[i]] = "done"}
        from == IF ready = {} THEN pending ELSE ready
    IN  futures[CHOOSE i \in from : \A j \in from : i <= j]

\* a count recorded for a source whether or not it failed
RecordOutcome_Both(res, s, fut) ==
    LET counted == [res EXCEPT !["sources"] = Put(@, s, Len(fut.data))]
    IN  IF ~IsNone(fut.error)
        THEN [counted EXCEPT !["errors"] = Append(@, <<s, Val(fut.error)>>)]
        ELSE counted

\* future.result() blocks until the work item has finished
ResultReady(s) == task[s] = "done"

\* `for source, future in futures.items()`: the futures are visited in the
\* order they were inserted, the submission order
NextFuture == futures[completed + 1]

\* lines 91-94: `if error: errors.append(...) else: sources[source] = len(data)`
RecordOutcome(res, s, fut) ==
    IF ~IsNone(fut.error)
    THEN [res EXCEPT !["errors"] = Append(@, <<s, Val(fut.error)>>)]
    ELSE [res EXCEPT !["sources"] = Put(@, s, Len(fut.data))]

\* lines 87-99: one iteration of the collection loop; after the last one the
\* with block is left
Collect ==
    /\ pc = "collect"
    /\ LET s == NextFuture
           total_sources == Len(futures)
       IN /\ ResultReady(s)
          /\ IF future[s].raised # ""
             THEN /\ exc' = future[s].raised
                  /\ pc' = "except"
                  /\ UNCHANGED <<source_data, results, completed, progress>>
             ELSE /\ source_data' = Store(source_data, s, future[s].data)
                  /\ results' = RecordOutcome(results, s, future[s])
                  /\ completed' = completed + 1
                  /\ Report(FetchProgress(completed', total_sources), "source")
                  /\ pc' = IF completed' = total_sources THEN "merge" ELSE "collect"
                  /\ exc' = exc
    /\ UNCHANGED <<cache_vars, pure_vars, refused, overtaken, asa, futures, task, future, fetched, calls, driver, sync_id,
                   merged_players, faults, ledger, players, now>>

\* lines 101-105: the merge checkpoint and _merge_player_data
Merge ==
    /\ pc = "merge"
    /\ Report(700, "merge")
    /\ LET r == merge_player_data(source_data, League, now) IN
       IF r.exc # ""
       THEN /\ exc' = r.exc
            /\ pc' = "except"
            /\ UNCHANGED <<merged_players, results>>
       ELSE /\ merged_players' = r.players
            /\ results' = [results EXCEPT !["total_players"] = Len(r.players)]
            /\ pc' = "save"
            /\ exc' = exc
    /\ now' = now + 1
    /\ UNCHANGED <<cache_vars, pure_vars, refused, overtaken, asa, futures, task, future, fetched, calls, driver, sync_id,
                   source_data, completed, faults, ledger, players>>

\* lines 107-110: the persist checkpoint and _save_players_to_db, the
\* database refusing the records in bad
Save ==
    /\ pc = "save"
    /\ Report(900, "persist")
    /\ \E bad \in SUBSET (1..Len(merged_players)) :
          /\ Cardinality(bad) <= MaxUpsertFailures
          /\ players' = save_players_to_db(players, merged_players, League, bad,
                                           now).table
          /\ faults' = IF bad = {} THEN faults ELSE faults \cup {"upsert"}
          /\ refused' = bad
    /\ pc' = "log"
    /\ now' = now + 1
    /\ UNCHANGED <<cache_vars, pure_vars, overtaken, asa, futures, task, future, fetched, calls, driver, sync_id,
                   results, source_data, completed, merged_players, exc, ledger>>

\* lines 107-110 when conn.commit() (or opening the connection) raises:
\* nothing is committed and the exception leaves _save_players_to_db
SaveRaises ==
    /\ pc = "save"
    /\ Report(900, "persist")
    /\ exc' = "OperationalError"
    /\ faults' = faults \cup {"commit"}
    /\ pc' = "except"
    /\ now' = now + 1
    /\ UNCHANGED <<cache_vars, pure_vars, refused, overtaken, asa, futures, task, future, fetched, calls, driver, sync_id,
                   results, source_data, completed, merged_players, ledger, players>>

\* a 'completed' row that counts the rows of the players table
LogCompleted_StoredRows ==
    /\ pc = "log"
    /\ ledger' = log_sync(ledger, League, "all", "completed",
                          Cardinality(DOMAIN players), None, now)
    /\ pc' = "close"
    /\ now' = now + 1
    /\ UNCHANGED <<cache_vars, pure_vars, refused, overtaken, asa, futures, task, future,
                   fetched, calls, driver, sync_id, results, source_data, completed,
                   merged_players, exc, faults, players, progress>>

\* line 112: the 'completed' row
LogCompleted ==
    /\ pc = "log"
    /\ ledger' = log_sync(ledger, League, "all", "completed",
                          results["total_players"], None, now)
    /\ pc' = "close"
    /\ now' = now + 1
    /\ UNCHANGED <<cache_vars, pure_vars, refused, overtaken, asa, futures, task, future, fetched, calls, driver, sync_id,
                   results, source_data, completed, merged_players, exc, faults,
                   players, progress>>

\* line 113: SofascoreScraper.close_driver(), driver.quit() succeeding
CloseDriver ==
    /\ pc = "close"
    /\ driver' = FALSE
    /\ pc' = "finish"
    /\ UNCHANGED <<cache_vars, pure_vars, refused, overtaken, asa, futures, task, future, fetched, calls, sync_id, results,
                   source_data, completed, merged_players, exc, faults, ledger,
                   players, progress, now>>

\* line 113 when driver.quit() raises: the driver stays set
CloseDriverRaises ==
    /\ pc = "close"
    /\ driver
    /\ exc' = "WebDriverException"
    /\ faults' = faults \cup {"quit"}
    /\ pc' = "except"
    /\ UNCHANGED <<cache_vars, pure_vars, refused, overtaken, asa, futures, task, future, fetched, calls, driver, sync_id,
                   results, source_data, completed, merged_players, ledger, players,
                   progress, now>>

\* lines 115-119: the last checkpoint, completed_at and duration
Finish ==
    /\ pc = "finish"
    /\ Report(1000, "done")
    /\ results' = ("completed_at" :> now) @@ ("duration" :> (now - results["started_at"]))
                    @@ results
    /\ pc' = "done"
    /\ now' = now + 1
    /\ UNCHANGED <<cache_vars, pure_vars, refused, overtaken, asa, futures, task, future, fetched, calls, driver, sync_id,
                   source_data, completed, merged_players, exc, faults, ledger,
                   players>>

\* an except clause that logs the number of merged records with 'failed'
HandleFailure_KeepCount ==
    /\ pc = "except"
    /\ ledger' = log_sync(ledger, League, "all", "failed", results["total_players"],
                          Some(exc), now)
    /\ results' = [results EXCEPT !["errors"] = Append(@, <<"Sync failed", exc>>)]
    /\ Report(1000, "failed")
    /\ pc' = "done"
    /\ now' = now + 1
    /\ UNCHANGED <<cache_vars, pure_vars, refused, overtaken, asa, futures, task, future,
                   fetched, calls, driver, sync_id, source_data, completed,
                   merged_players, exc, faults, players>>

\* lines 121-126: the except clause
HandleFailure ==
    /\ pc = "except"
    /\ ledger' = log_sync(ledger, League, "all", "failed", 0, Some(exc), now)
    /\ results' = [results EXCEPT !["errors"] = Append(@, <<"Sync failed", exc>>)]
    /\ Report(1000, "failed")
    /\ pc' = "done"
    /\ now' = now + 1
    /\ UNCHANGED <<cache_vars, pure_vars, refused, overtaken, asa, futures, task, future, fetched, calls, driver, sync_id,
                   source_data, completed, merged_players, exc, faults, players>>

Next ==
    \/ SyncStart
    \/ Submit
    \/ \E s \in AllSources : WorkerStart(s)
    \/ \E s \in AllSources : WorkerFinish(s)
    \/ Collect
    \/ Merge
    \/ Save
    \/ SaveRaises
    \/ LogCompleted
    \/ CloseDriver
    \/ CloseDriverRaises
    \/ Finish
    \/ HandleFailure

Spec == Init /\ [][Next]_vars

-----------------------------------------------------------------------------
(* _generate_player_key called directly on a range of arguments *)

\* sync_league_data has not been called
SyncIdle ==
    /\ pc = "idle"
    /\ asa = FALSE
    /\ futures = <<>>
    /\ task = [s \in AllSources |-> "none"]
    /\ future = [s \in AllSources |-> NoFuture]
    /\ fetched = [s \in AllSources |-> NoOutcome]
    /\ calls = [s \in AllSources |-> 0]
    /\ driver = FALSE
    /\ sync_id = 0
    /\ results = EmptyDict
    /\ source_data = <<>>
    /\ completed = 0
    /\ merged_players = <<>>
    /\ exc = ""
    /\ faults = {}
    /\ overtaken = FALSE
    /\ ledger = <<>>
    /\ players = EmptyDict
    /\ progress = <<>>
    /\ now = 1
    /\ refused = {}

\* how many calls of _generate_player_key one behaviour makes
MaxKeyCalls == 2

\* name arguments: '', ' ', 'a b', 'A B', ' a  b ', 'b', and None
KeyNames ==
    {None, Some(<<>>), Some(<<Space>>), Some(NameAB), Some(NameABUpper),
     Some(<<Space, "a", Space, Space, "b", Space>>), Some(NameB)}

\* club arguments: '', 'x', 'X ', 'x b', 'X  B', and None
KeyClubs ==
    {None, Some(<<>>), Some(ClubX), Some(<<"X", Space>>),
     Some(<<"x", Space, "b">>), Some(<<"X", Space, Space, "B">>)}

KeyInit == SyncIdle /\ PureIdle /\ CacheIdle

\* one call self._generate_player_key(name, club)
GenerateKey ==
    /\ Len(key_calls) < MaxKeyCalls
    /\ \E name \in KeyNames, club \in KeyClubs :
          key_calls' = Append(key_calls,
                              [name |-> name, club |-> club,
                               result |-> generate_player_key(name, club)])
    /\ UNCHANGED <<cache_vars, sync_vars, md_source_data, md_folded, md_merged, md_final_list,
                   md_exc, md_pc>>

KeyNext == GenerateKey

KeySpec == KeyInit /\ [][KeyNext]_vars

-----------------------------------------------------------------------------
(* _merge_player_data called directly on a range of source_data arguments, *)
(* one candidate of the nested loops at a time                             *)

\* how many candidates the lists of one source_data argument hold together
MaxCandidates == 3

\* candidate records: three of one player (same key 'a_b_x'), with ages
\* 24, null, 24 and market values 100, 200, 150; one of another player with
\* nothing but a null rating; one with a null club; one without a club key
CandA1 == [name |-> Some(NameAB), club |-> Some(ClubX), age |-> Some(24),
           market_value |-> Some(100), goals |-> Some(3), rating |-> Some(725),
           fbref_id |-> Some("f1"), xg |-> Some(310)]
CandA2 == [name |-> Some(NameABUpper), club |-> Some(ClubX), age |-> None,
           market_value |-> Some(200), fbref_id |-> Some(""),
           transfermarkt_id |-> Some("t1")]
CandA3 == [name |-> Some(NameAB), club |-> Some(ClubX), age |-> Some(24),
           market_value |-> Some(150), goals |-> Some(5), rating |-> Some(775),
           fbref_id |-> Some("f2"), sofascore_id |-> Some("s1"), xg |-> Some(500)]
CandB == [name |-> Some(NameB), club |-> Some(ClubX), rating |-> None]
CandNullClub == [name |-> Some(NameAB), club |-> None, market_value |-> Some(50)]
CandNoClub == [name |-> Some(NameAB), sofascore_id |-> Some("s2"),
               rating |-> Some(775), market_value |-> Some(50)]

Pool == {CandA1, CandA2, CandA3, CandB, CandNullClub, CandNoClub}

\* the source_data dict that gives the first l1 candidates of flat to fbref,
\* the next l2 to transfermarkt and the rest to sofascore
SourceDataOf(flat, l1, l2) ==
    << <<"fbref", SubSeq(flat, 1, l1)>>,
       <<"transfermarkt", SubSeq(flat, l1 + 1, l1 + l2)>>,
       <<"sofascore", SubSeq(flat, l1 + l2 + 1, Len(flat))>> >>

\* the ways of giving n candidates to the three sources
Shares(n) == {l \in (0..n) \X (0..n) : l[1] + l[2] <= n}

MergeInputs ==
    UNION {{SourceDataOf(flat, l[1], l[2]) : flat \in [1..n -> Pool], l \in Shares(n)} :
           n \in 0..MaxCandidates}

\* the <<source, player>> pairs in the order the nested loops visit them
RECURSIVE FoldOrder(_)
FoldOrder(sd) ==
    IF sd = <<>> THEN <<>>
    ELSE [j \in 1..Len(sd[1][2]) |-> <<sd[1][1], sd[1][2][j]>>] \o FoldOrder(Tail(sd))

MergeInit ==
    /\ SyncIdle
    /\ CacheIdle
    /\ key_calls = <<>>
    /\ md_source_data \in MergeInputs
    /\ md_folded = 0
    /\ md_merged = <<>>
    /\ md_final_list = <<>>
    /\ md_exc = ""
    /\ md_pc = "fold"

\* lines 155-163: one iteration of `for player in players`
FoldCandidate ==
    /\ md_pc = "fold"
    /\ md_folded < Len(FoldOrder(md_source_data))
    /\ LET c == FoldOrder(md_source_data)[md_folded + 1]
           r == MergePlayer([exc |-> "", merged_players |-> md_merged],
                            c[2], c[1], League, now)
       IN IF r.exc # ""
          THEN /\ md_exc' = r.exc
               /\ md_pc' = "raised"
               /\ UNCHANGED <<md_merged, md_folded>>
          ELSE /\ md_merged' = r.merged_players
               /\ md_folded' = md_folded + 1
               /\ UNCHANGED <<md_exc, md_pc>>
    /\ UNCHANGED <<cache_vars, sync_vars, key_calls, md_source_data, md_final_list>>

\* lines 165-173: the back-fill loop and the return
BuildFinalList ==
    /\ md_pc = "fold"
    /\ md_folded = Len(FoldOrder(md_source_data))
    /\ md_final_list' = [i \in 1..Len(md_merged) |-> BackFill(md_merged[i][2])]
    /\ md_pc' = "returned"
    /\ UNCHANGED <<cache_vars, sync_vars, key_calls, md_source_data, md_folded, md_merged, md_exc>>

MergeNext == FoldCandidate \/ BuildFinalList

MergeSpec == MergeInit /\ [][MergeNext]_vars

-----------------------------------------------------------------------------
(* DatabaseManager.cache_get / cache_set / clear_expired_cache and         *)
(* BaseScraper.make_request, called at the times of a clock in seconds     *)

\* Config.CACHE_TTL_HOURS and Config.CACHE_TTL_SECONDS
CACHE_TTL_HOURS == 6
Hour == 3600
CACHE_TTL_SECONDS == CACHE_TTL_HOURS * Hour

\* how many hours the clock runs
MaxHours == 7

\* `SELECT value FROM cache WHERE key = ? AND expiry > ?` with datetime.now():
\* the value of the row found, or None
cache_get_Inclusive(tbl, key, t) ==
    IF key \in DOMAIN tbl /\ tbl[key].expiry >= t THEN Some(tbl[key].value) ELSE None

cache_get(tbl, key, t) ==
    IF key \in DOMAIN tbl /\ tbl[key].expiry > t THEN Some(tbl[key].value) ELSE None

\* INSERT OR REPLACE on the primary key, expiry = datetime.now() + ttl_seconds
cache_set(tbl, key, value, ttl_seconds, t) ==
    Put(tbl, key, [value |-> value, expiry |-> t + ttl_seconds, created_at |-> t])

\* a sweep that empties the table
clear_expired_cache_All(tbl, t) ==
    [table |-> EmptyDict, deleted |-> Cardinality(DOMAIN tbl)]

\* `DELETE FROM cache WHERE expiry < ?` with datetime.now(): [table, deleted]
clear_expired_cache(tbl, t) ==
    LET gone == {k \in DOMAIN tbl : tbl[k].expiry < t} IN
    [table |-> [k \in DOMAIN tbl \ gone |-> tbl[k]], deleted |-> Cardinality(gone)]

\* what session.get and raise_for_status can give: a response with a text,
\* a timeout, or an HTTP error status (both are RequestExceptions)
Responses ==
    [kind : {"ok"}, text : {"p", ""}] \cup [kind : {"timeout", "error"}, text : {""}]

\* `if cached:` a cached value that is not None and not the empty string
Truthy(cached) == ~IsNone(cached) /\ Val(cached) # ""

\* make_request with the cache written before raise_for_status
make_request_CacheFirst(tbl, url, use_cache, resp, t) ==
    LET cached == IF use_cache THEN cache_get(tbl, url, t) ELSE None IN
    IF Truthy(cached)
    THEN [table |-> tbl, result |-> cached, requested |-> FALSE]
    ELSE [table |-> IF use_cache /\ resp.kind # "timeout"
                    THEN cache_set(tbl, url, resp.text, CACHE_TTL_SECONDS, t) ELSE tbl,
          result |-> IF resp.kind = "ok" THEN Some(resp.text) ELSE None,
          requested |-> TRUE]

\* BaseScraper.make_request: [table, result, requested].  The delay and the
\* request take less than the clock can tell.
make_request(tbl, url, use_cache, resp, t) ==
    LET cached == IF use_cache THEN cache_get(tbl, url, t) ELSE None IN
    IF Truthy(cached)
    THEN [table |-> tbl, result |-> cached, requested |-> FALSE]
    ELSE IF resp.kind = "ok"
         THEN [table |-> IF use_cache
                         THEN cache_set(tbl, url, resp.text, CACHE_TTL_SECONDS, t)
                         ELSE tbl,
               result |-> Some(resp.text), requested |-> TRUE]
         ELSE [table |-> tbl, result |-> None, requested |-> TRUE]

\* the keys in use (request URLs), the values and lifetimes of direct
\* cache_set calls
CacheKeys == {"u1", "u2"}
CacheValues == {"v"}
TTLs == {0, Hour}

CacheInit == SyncIdle /\ PureIdle /\ CacheIdle

\* time passes
Tick ==
    /\ clock + Hour <= MaxHours * Hour
    /\ clock' = clock + Hour
    /\ UNCHANGED <<sync_vars, pure_vars, cache, cache_call, cache_sets>>

CacheGet(key) ==
    /\ cache_call' = [op |-> "get", key |-> key, at |-> clock,
                      result |-> cache_get(cache, key, clock)]
    /\ UNCHANGED <<sync_vars, pure_vars, cache, clock, cache_sets>>

CacheSet(key, value, ttl_seconds) ==
    /\ cache' = cache_set(cache, key, value, ttl_seconds, clock)
    /\ cache_sets' = Put(cache_sets, key, cache'[key])
    /\ cache_call' = [op |-> "set", key |-> key, at |-> clock]
    /\ UNCHANGED <<sync_vars, pure_vars, clock>>

ClearExpired ==
    /\ LET r == clear_expired_cache(cache, clock) IN
          /\ cache' = r.table
          /\ cache_call' = [op |-> "sweep", at |-> clock, result |-> r.deleted]
    /\ UNCHANGED <<sync_vars, pure_vars, clock, cache_sets>>

MakeRequest(url, use_cache, resp) ==
    /\ LET r == make_request(cache, url, use_cache, resp, clock) IN
          /\ cache' = r.table
          /\ cache_sets' = IF r.table # cache THEN Put(cache_sets, url, r.table[url])
                           ELSE cache_sets
          /\ cache_call' = [op |-> "request", key |-> url, at |-> clock,
                            use_cache |-> use_cache, response |-> resp.kind,
                            result |-> r.result, requested |-> r.requested]
    /\ UNCHANGED <<sync_vars, pure_vars, clock>>

CacheNext ==
    \/ Tick
    \/ \E key \in CacheKeys : CacheGet(key)
    \/ \E key \in CacheKeys, value \in CacheValues, ttl_seconds \in TTLs :
          CacheSet(key, value, ttl_seconds)
    \/ ClearExpired
    \/ \E resp \in Responses, use_cache \in BOOLEAN : MakeRequest("u1", use_cache, resp)

CacheSpec == CacheInit /\ [][CacheNext]_vars

-----------------------------------------------------------------------------
(* The properties of the sync orchestration *)

Done == pc = "done"

\* the configured adapters
Configured == {SubmitOrder(asa)[i] : i \in 1..Len(SubmitOrder(asa))}

\* the checkpoints reported so far
Stages == {progress[i][2] : i \in 1..Len(progress)}

\* the sources that have an entry in the outcome's errors list
ErrorSources == {results["errors"][i][1] : i \in 1..Len(results["errors"])}
                    \cap AllSources

\* the adapters whose scrape_league raised, the ones that timed out
Failed == {s \in AllSources : task[s] = "done" /\ scrape_league(s, fetched[s]).exc # ""}
TimedOut == {s \in AllSources : task[s] = "done" /\ fetched[s].kind = "timeout"}

\* the ledger rows this sync wrote after its 'started' row
OwnRows == {i \in (sync_id + 1)..Len(ledger) : sync_id > 0}
TerminalRows == {i \in OwnRows : ledger[i].status \in {"completed", "failed"}}

\* what the adapters produced, in the fixed submission order
FixedOrderData ==
    [i \in 1..Len(SubmitOrder(asa)) |->
        <<SubmitOrder(asa)[i],
          scrape_league(SubmitOrder(asa)[i], fetched[SubmitOrder(asa)[i]]).data>>]

\* nothing but adapter fetches went wrong in this sync: no record was refused
\* by the database (PersistenceError) and nothing escaped the try block
\* (SyncFatalError): every candidate has a derivable key, commit and
\* driver.quit() succeeded
NoOtherFault ==
    /\ faults = {}
    /\ merge_player_data(FixedOrderData, League, 0).exc = ""

WithoutTimestamp(rec) == [k \in DOMAIN rec \ {"last_updated"} |-> rec[k]]
WithoutTimestamps(ps) == [i \in 1..Len(ps) |-> WithoutTimestamp(ps[i])]

C2_TimeoutIsRecordedFailure ==
    (Done /\ NoOtherFault) =>
        \A s \in TimedOut :
            /\ calls[s] = 1
            /\ s \in ErrorSources
            /\ s \notin DOMAIN results["sources"]
            /\ \E i \in OwnRows : ledger[i].status = "completed"

\* C3: the outcome returned by every sync holds completed_at, duration and
\* errors, also when the except clause ran.
C3_OutcomeAlwaysPopulated ==
    Done => {"completed_at", "duration", "errors"} \subseteq DOMAIN results

\* C4: a sync that has returned wrote exactly one row with a terminal status
\* after its 'started' row.
C4_ExactlyOneTerminalRow ==
    Done => Cardinality(TerminalRows) = 1

\* C5: once the sync has returned, the row written at its start is no longer
\* in status 'started', and the rows the ledger held before are unchanged.
C5_StartRowFinalized ==
    Done =>
        /\ ledger[sync_id].status # "started"
        /\ SubSeq(ledger, 1, sync_id - 1) \in {PriorLedger(n) : n \in 0..MaxPriorSyncs}

\* C6: join barrier.  Once the merge step has been reached, every configured
\* adapter has been submitted and its fetch has ended, and none is running.
C6_JoinBarrier ==
    (pc = "merge" \/ "merge" \in Stages) =>
        /\ \A s \in Configured : task[s] = "done"
        /\ Running = {}

\* the merge step is about to run after an adapter raised and another one
\* timed out, with four adapters on three workers
C6_Witness ==
    /\ pc = "merge" /\ asa
    /\ Failed # {} /\ TimedOut # {}

\* C7: the canonical records are those of folding the adapters' candidate
\* lists in the submission order fbref, transfermarkt, sofascore, asa,
\* whatever the order in which the adapters finished.
C7_MergeOrderIsSubmissionOrder ==
    ("merge" \in Stages) =>
        LET r == merge_player_data(FixedOrderData, League, 0) IN
        IF r.exc # "" THEN merged_players = <<>> /\ exc = r.exc
        ELSE WithoutTimestamps(merged_players) = WithoutTimestamps(r.players)

\* the merge has run on a cluster fed by two sources, after an adapter had
\* finished before one submitted earlier
C7_Witness ==
    /\ "merge" \in Stages /\ overtaken
    /\ \E i \in 1..Len(merged_players) :
          Cardinality(DOMAIN merged_players[i]["sources"]) >= 2

StageRank(st) ==
    CASE st = "start" -> 1
      [] st = "source" -> 2
      [] st = "merge" -> 3
      [] st = "persist" -> 4
      [] st = "done" -> 5
      [] st = "failed" -> 5

\* C8: the fractions reported so far lie in [0, 1] and never decrease, the
\* checkpoints come in the order start, one per collected source, merge,
\* persist, end, and a sync that has returned reported 1.0 last, also when
\* it failed.
C8_ProgressMonotonic ==
    /\ \A i \in 1..Len(progress) : progress[i][1] >= 0 /\ progress[i][1] <= 1000
    /\ \A i \in 1..Len(progress) : \A j \in i..Len(progress) :
          /\ progress[i][1] <= progress[j][1]
          /\ StageRank(progress[i][2]) <= StageRank(progress[j][2])
    /\ Cardinality({i \in 1..Len(progress) : progress[i][2] = "source"}) = completed
    /\ \A st \in {"start", "merge", "persist", "done", "failed"} :
          Cardinality({i \in 1..Len(progress) : progress[i][2] = st}) <= 1
    /\ pc # "idle" => progress[1] = <<100, "start">>
    /\ Done => progress[Len(progress)][1] = 1000

\* a sync of four sources has returned through the except clause
C8_Witness ==
    /\ Done /\ asa /\ exc # ""
    /\ completed = 4

\* C9: no adapter's fetch is invoked twice, never more than
\* MAX_CONCURRENT_REQUESTS fetches run at once, and once the collection loop
\* is over every configured adapter was invoked exactly once and has ended
\* (an adapter that is not configured was never invoked).
C9_BoundedParallelism ==
    /\ \A s \in AllSources : calls[s] <= 1
    /\ Cardinality(Running) <= MAX_CONCURRENT_REQUESTS
    /\ (pc \notin {"idle", "submit", "collect"}) =>
          /\ \A s \in Configured : calls[s] = 1 /\ task[s] = "done"
          /\ \A s \in AllSources \ Configured : calls[s] = 0

\* three fetches are running and the fourth adapter waits in the queue
C9_Witness ==
    /\ Cardinality(Running) = MAX_CONCURRENT_REQUESTS
    /\ task["asa"] = "queued"

\* C10: a finished fetch gave either a candidate list and no error, or an
\* error and an empty list, the error exactly when the adapter raised; every
\* source collected so far is in exactly one of results['sources'] and
\* results['errors'], and once the loop is over that holds of every
\* configured source, and no other source is in either.
C10_ExactlyOneOutcome ==
    /\ \A s \in AllSources : task[s] = "done" =>
          /\ future[s].raised = ""
          /\ IsNone(future[s].error) <=> scrape_league(s, fetched[s]).exc = ""
          /\ ~IsNone(future[s].error) => future[s].data = <<>>
    /\ pc # "idle" =>
          /\ \A i \in 1..completed :
                (futures[i] \in DOMAIN results["sources"]) <=> (futures[i] \notin ErrorSources)
          /\ DOMAIN results["sources"] \cup ErrorSources = {futures[i] : i \in 1..completed}
          /\ Cardinality(ErrorSources) =
                Cardinality({i \in 1..Len(results["errors"]) :
                                results["errors"][i][1] \in AllSources})
    /\ (pc \notin {"idle", "submit", "collect"}) => completed = Cardinality(Configured)

\* a sync has returned with one source under errors and the others counted
C10_Witness ==
    /\ Done /\ asa
    /\ Cardinality(ErrorSources) = 1
    /\ Cardinality(DOMAIN results["sources"]) = 3

-----------------------------------------------------------------------------
(* The properties of the match key *)

\* a string made of whitespace only (the empty string included)
Blank(str) == \A i \in 1..Len(str) : str[i] = Space

\* the calls made with two strings
StringCalls == {i \in 1..Len(key_calls) :
                   ~IsNone(key_calls[i].name) /\ ~IsNone(key_calls[i].club)}

\* C11: a call of _generate_player_key whose name is empty or whitespace-only,
\* or whose club is empty, returns a key instead of raising, and two such
\* calls with the same arguments return the same key.
C11_KeyTotalOnDegenerateInputs ==
    \A i \in StringCalls :
        (Blank(Val(key_calls[i].name)) \/ Val(key_calls[i].club) = <<>>) =>
            /\ key_calls[i].result.exc = ""
            /\ \A j \in StringCalls :
                  (key_calls[j].name = key_calls[i].name
                   /\ key_calls[j].club = key_calls[i].club)
                      => key_calls[j].result = key_calls[i].result

\* a string with its case and its whitespace variation taken away: the
\* lower-cased tokens
Tokens(str) == Split(Lower(str))

\* C12: two calls whose names differ only in case and whitespace, and whose
\* clubs differ only in case and whitespace, return the same key.
C12_KeyInsensitiveToCaseAndWhitespace ==
    \A i \in StringCalls : \A j \in StringCalls :
        (/\ Tokens(Val(key_calls[i].name)) = Tokens(Val(key_calls[j].name))
         /\ Tokens(Val(key_calls[i].club)) = Tokens(Val(key_calls[j].club)))
            => key_calls[i].result = key_calls[j].result

-----------------------------------------------------------------------------
(* The properties of the merge *)

\* the candidates folded so far, and the match key of a candidate
Folded == SubSeq(FoldOrder(md_source_data), 1, md_folded)
KeyOf(player) == generate_player_key(Get(player, "name", Some(<<>>)),
                                     Get(player, "club", Some(<<>>))).key

\* the positions in Folded of the candidates of the cluster with key k, and
\* of those among them that have a non-null value for field f
Cluster(k) == {i \in 1..md_folded : KeyOf(Folded[i][2]) = k}
Suppliers(k, f) == {i \in Cluster(k) : Supplies(Folded[i][2], f)}

\* the stepwise fold agrees with the function as a whole
MergeStepsAgree ==
    LET r == merge_player_data(md_source_data, League, now) IN
    /\ md_pc = "raised" => r.exc = md_exc /\ md_exc # ""
    /\ md_pc = "returned" => r.exc = "" /\ r.players = md_final_list

\* the clusters built so far: the positions in md_merged
Clusters == 1..Len(md_merged)
ClusterKey(c) == md_merged[c][1]
Canonical(c) == md_merged[c][2]

Least(S) == CHOOSE i \in S : \A j \in S : i <= j
Greatest(S) == CHOOSE i \in S : \A j \in S : i >= j

\* the scalar fields that are neither market_value, nor rating, nor an id
OtherScalars ==
    {"name", "age", "position", "club", "nationality", "goals", "assists",
     "matches", "minutes_played", "yellow_cards", "red_cards",
     "xg", "xa", "xg_per_90", "xa_per_90", "key_passes", "dribbles"}

\* C13: at every point of the fold, each scalar field other than
\* market_value, rating and the ids (the six stats included) holds the value
\* of the first candidate of the cluster, in fold order, that had a non-null
\* value for it, and is absent when no candidate had one.
C13_FirstNonNullWins ==
    \A c \in Clusters : \A f \in OtherScalars :
        LET S == Suppliers(ClusterKey(c), f) IN
        IF S = {} THEN f \notin DOMAIN Canonical(c)
        ELSE /\ f \in DOMAIN Canonical(c)
             /\ Canonical(c)[f] = Folded[Least(S)][2][f]

\* the market_value of a canonical record, -1 when it has none
MarketValue(rec) ==
    IF "market_value" \in DOMAIN rec THEN Val(rec["market_value"]) ELSE -1

\* C14: at every point of the fold the market_value of a cluster is the
\* maximum of the market values its candidates supplied so far (so at least
\* each of them), no fold step makes the market_value of any cluster smaller,
\* and the returned record carries that maximum.
C14_MarketValueMonotone ==
    /\ [](\A c \in Clusters :
            LET S == Suppliers(ClusterKey(c), "market_value") IN
            /\ S = {} <=> "market_value" \notin DOMAIN Canonical(c)
            /\ \A i \in S : MarketValue(Canonical(c)) >= Val(Folded[i][2]["market_value"])
            /\ S # {} => \E i \in S :
                  MarketValue(Canonical(c)) = Val(Folded[i][2]["market_value"])
            /\ md_pc = "returned" =>
                  MarketValue(md_final_list[c]) = MarketValue(Canonical(c)))
    /\ [][\A c \in Clusters :
            /\ c <= Len(md_merged')
            /\ md_merged'[c][1] = ClusterKey(c)
            /\ MarketValue(md_merged'[c][2]) >= MarketValue(Canonical(c))]_vars

\* a cluster of three candidates with market values has been returned, the
\* last folded value being smaller than an earlier one
C14_Witness ==
    /\ md_pc = "returned"
    /\ \E c \in Clusters :
          LET S == Suppliers(ClusterKey(c), "market_value") IN
          /\ Cardinality(S) = 3
          /\ Val(Folded[Greatest(S)][2]["market_value"]) < MarketValue(md_final_list[c])
          /\ Val(Folded[Least(S)][2]["market_value"]) < MarketValue(md_final_list[c])

\* the ratings the candidates of cluster k supplied among the first n folded,
\* in fold order
RECURSIVE RatingsOf(_, _)
RatingsOf(k, n) ==
    IF n = 0 THEN <<>>
    ELSE RatingsOf(k, n - 1) \o
            (IF n \in Suppliers(k, "rating") THEN <<Val(Folded[n][2]["rating"])>>
             ELSE <<>>)

RECURSIVE Pow2(_)
Pow2(n) == IF n = 0 THEN 1 ELSE 2 * Pow2(n - 1)

\* the recurrence m1 = r1, m(i) = (m(i-1) + r(i)) / 2 as the exact fraction
\* RecurrenceNum(rs) / 2^(Len(rs) - 1)
RECURSIVE RecurrenceNum(_)
RecurrenceNum(rs) ==
    IF Len(rs) = 1 THEN rs[1]
    ELSE RecurrenceNum(SubSeq(rs, 1, Len(rs) - 1)) + rs[Len(rs)] * Pow2(Len(rs) - 2)

\* C15: at every point of the fold the rating of a cluster whose candidates
\* supplied the ratings r1..rk is exactly the value of the recurrence
\* m1 = r1, m(i) = (m(i-1) + r(i)) / 2, with nothing rounded on the way.
C15_RatingIsExactRecurrence ==
    \A c \in Clusters :
        LET rs == RatingsOf(ClusterKey(c), md_folded) IN
        IF rs = <<>> THEN "rating" \notin DOMAIN Canonical(c)
        ELSE /\ "rating" \in DOMAIN Canonical(c)
             /\ Val(Canonical(c)["rating"]) * Pow2(Len(rs) - 1) = RecurrenceNum(rs)

\* the per-source records of a canonical record that report a rating
Rated(rec) == {s \in DOMAIN rec["sources"] : HasUsableRating(rec["sources"][s])}

\* C16: in the returned list, a cluster none of whose candidates supplied a
\* rating has the rating set to the average of the ratings its per-source
\* records report, and no rating when none of them reports one (which is
\* always so: the per-source records are candidates of the cluster); in
\* every other respect, and for every other cluster, the returned record is
\* the folded one.
C16_RatingBackFill ==
    md_pc = "returned" =>
        \A c \in Clusters :
            IF Suppliers(ClusterKey(c), "rating") = {}
            THEN /\ IF Rated(Canonical(c)) # {}
                    THEN md_final_list[c]["rating"] =
                            Some(Round1(SumRatings(Canonical(c)["sources"],
                                                   Rated(Canonical(c))),
                                        Cardinality(Rated(Canonical(c)))))
                    ELSE "rating" \notin DOMAIN md_final_list[c]
                 /\ Rated(Canonical(c)) = {}
                 /\ [f \in DOMAIN md_final_list[c] \ {"rating"} |-> md_final_list[c][f]]
                       = Canonical(c)
            ELSE md_final_list[c] = Canonical(c)

\* a list has been returned with a cluster of two sources whose candidates
\* supplied no rating, one of them a null one, beside a cluster with a rating
C16_Witness ==
    /\ md_pc = "returned"
    /\ \E c \in Clusters :
          /\ Suppliers(ClusterKey(c), "rating") = {}
          /\ Cardinality(DOMAIN Canonical(c)["sources"]) = 2
          /\ \E i \in Cluster(ClusterKey(c)) : "rating" \in DOMAIN Folded[i][2]
    /\ \E c \in Clusters : "rating" \in DOMAIN md_final_list[c]

\* a candidate list without the candidates that are followed, in the same
\* list, by a candidate with the same match key
RECURSIVE LastOfEachKey(_)
LastOfEachKey(ps) ==
    IF ps = <<>> THEN <<>>
    ELSE IF \E j \in 2..Len(ps) : KeyOf(ps[j]) = KeyOf(ps[1])
         THEN LastOfEachKey(Tail(ps))
         ELSE <<ps[1]>> \o LastOfEachKey(Tail(ps))

\* source_data with only the last candidate of each source for each key
LastPerSource(sd) == [i \in 1..Len(sd) |-> <<sd[i][1], LastOfEachKey(sd[i][2])>>]

\* C17: a canonical record has at most one per-source record for each
\* source, and the returned records are those of merging, for every source
\* and key, only the last candidate that source supplied with that key.
C17_SecondCandidateReplacesFirst ==
    md_pc = "returned" =>
        LET only == MergeSources([exc |-> "", merged_players |-> <<>>],
                                 LastPerSource(md_source_data), League, now)
        IN \A c \in Clusters :
              /\ DOMAIN Canonical(c)["sources"] \subseteq {"fbref", "transfermarkt", "sofascore"}
              /\ HasKey(only.merged_players, ClusterKey(c))
              /\ md_final_list[c] = BackFill(Lookup(only.merged_players, ClusterKey(c)))

\* every field a canonical record can get from its candidates
AllFields ==
    OtherScalars \cup {"market_value", "rating", "fbref_id", "transfermarkt_id",
                       "sofascore_id", "asa_id"}

\* the name of the candidate is a non-empty string
HasName(player) ==
    /\ "name" \in DOMAIN player
    /\ ~IsNone(player["name"])
    /\ Val(player["name"]) # <<>>

\* C18: when every candidate has a non-empty name, whatever other fields are
\* missing or null (the club included), _merge_player_data does not raise,
\* and in the returned records every field for which no candidate of the
\* cluster had a non-null value is absent or null.
C18_MergeToleratesMissingFields ==
    (\A i \in 1..Len(FoldOrder(md_source_data)) : HasName(FoldOrder(md_source_data)[i][2]))
        => /\ md_pc # "raised"
           /\ md_pc = "returned" =>
                 \A c \in Clusters : \A f \in AllFields :
                     Suppliers(ClusterKey(c), f) = {} =>
                         (f \notin DOMAIN md_final_list[c] \/ IsNone(md_final_list[c][f]))

\* the candidate carries a non-empty value for the id field
CarriesId(player, idf) ==
    /\ idf \in DOMAIN player
    /\ ~IsNone(player[idf])
    /\ Val(player[idf]) # ""

IdCarriers(k, idf) == {i \in Cluster(k) : CarriesId(Folded[i][2], idf)}

\* the id of a canonical record, None when it has none
IdOf(rec, idf) == IF idf \in DOMAIN rec THEN rec[idf] ELSE None

\* C19: at every point of the fold each of the four ids of a cluster is the
\* one of the last candidate of the cluster, in fold order, that carried a
\* non-empty value for it, and is absent when none did; the returned record
\* has the same ids; and a fold step leaves every id of every cluster as it
\* was, except the ids the folded candidate carries, in its own cluster.
C19_IdsUnionAssigned ==
    /\ [](\A c \in Clusters : \A idf \in {"fbref_id", "transfermarkt_id",
                                          "sofascore_id", "asa_id"} :
            LET S == IdCarriers(ClusterKey(c), idf) IN
            /\ IF S = {} THEN idf \notin DOMAIN Canonical(c)
               ELSE IdOf(Canonical(c), idf) = Folded[Greatest(S)][2][idf]
            /\ md_pc = "returned" =>
                  IdOf(md_final_list[c], idf) = IdOf(Canonical(c), idf))
    /\ [][md_folded' = md_folded + 1 =>
            LET new == FoldOrder(md_source_data)[md_folded'][2] IN
            \A c \in Clusters : \A idf \in {"fbref_id", "transfermarkt_id",
                                            "sofascore_id", "asa_id"} :
                (ClusterKey(c) # KeyOf(new) \/ ~CarriesId(new, idf)) =>
                    /\ md_merged'[c][1] = ClusterKey(c)
                    /\ IdOf(md_merged'[c][2], idf) = IdOf(Canonical(c), idf)
                    /\ (idf \in DOMAIN md_merged'[c][2]) = (idf \in DOMAIN Canonical(c))]_vars

\* a record has been returned whose fbref_id was given by one candidate,
\* met an empty fbref_id of a second and was replaced by that of a third,
\* and which has an id no later candidate carried
C19_Witness ==
    /\ md_pc = "returned"
    /\ md_source_data = SourceDataOf(<<CandA1, CandA2, CandA3>>, 1, 1)
    /\ IdOf(md_final_list[1], "fbref_id") = Some("f2")
    /\ IdOf(md_final_list[1], "transfermarkt_id") = Some("t1")
    /\ "asa_id" \notin DOMAIN md_final_list[1]

\* the sources that supplied a candidate with key k among those folded
Contributors(k) == {Folded[i][1] : i \in Cluster(k)}

\* three adapters report the same player with market values 100, 200, 150
\* and ages 24, null, 24
C20_Scenario == SourceDataOf(<<CandA1, CandA2, CandA3>>, 1, 1)

\* C20: at every point of the fold the sources of a canonical record are
\* exactly the sources that supplied a candidate with its key, the returned
\* record has the same sources, and the three-adapter scenario returns one
\* record with market_value 200, age 24 and the three sources.
C20_ContributingSources ==
    /\ \A c \in Clusters :
          /\ DOMAIN Canonical(c)["sources"] = Contributors(ClusterKey(c))
          /\ md_pc = "returned" =>
                DOMAIN md_final_list[c]["sources"] = Contributors(ClusterKey(c))
    /\ (md_pc = "returned" /\ md_source_data = C20_Scenario) =>
          /\ Len(md_final_list) = 1
          /\ md_final_list[1]["market_value"] = Some(200)
          /\ md_final_list[1]["age"] = Some(24)
          /\ DOMAIN md_final_list[1]["sources"] = {"fbref", "transfermarkt", "sofascore"}

\* the three-adapter scenario has been merged and returned
C20_Witness ==
    /\ md_pc = "returned"
    /\ md_source_data = C20_Scenario
    /\ md_folded = 3

-----------------------------------------------------------------------------
(* The properties of persistence and of the ledger *)

\* the match key of a stored row (a NULL club is the missing club)
RowKey(row) ==
    generate_player_key(row.name, IF IsNone(row.club) THEN Some(<<>>) ELSE row.club).key

\* the rows of the players table that belong to the entity with match key k
RowsOf(k) == {id \in DOMAIN players : RowKey(players[id]) = k}

\* the save of this sync has run and committed
Saved == "persist" \in Stages /\ "commit" \notin faults

\* row id was written by this sync from record rec
Fresh(id, rec) ==
    /\ id \in DOMAIN players
    /\ players[id].last_updated > 0
    /\ players[id] = PlayerRow(rec, League, players[id].last_updated)

\* the rows earlier syncs can have left
PriorRows ==
    UNION {{tbl[id] : id \in DOMAIN tbl} : tbl \in PriorPlayers(MaxPriorSyncs)}

\* C25: after a sync that saved all its records, every entity it produced a
\* canonical record for has exactly one row in the players table, whatever
\* earlier syncs stored for it, and that row carries this sync's record.
C25_IdempotentPersistence ==
    (Done /\ Saved /\ refused = {}) =>
        \A i \in 1..Len(merged_players) :
            LET rows == RowsOf(KeyOf(merged_players[i])) IN
            /\ Cardinality(rows) = 1
            /\ \A id \in rows : Fresh(id, merged_players[i])

\* C26: once the save has run, every record the database did not refuse is
\* in the players table as this sync wrote it, a refused record has no row
\* or the row an earlier sync left, and the sync goes on to its 'completed'
\* row: a refused record alone never leads to the except clause.
C26_UpsertFailureIsolated ==
    Saved =>
        /\ \A i \in 1..Len(merged_players) :
              LET id == ExternalId(merged_players[i], League) IN
              IF i \in refused
              THEN id \in DOMAIN players => players[id] \in PriorRows
              ELSE Fresh(id, merged_players[i])
        /\ "quit" \notin faults => (exc = "" /\ pc # "except")
        /\ (Done /\ "quit" \notin faults) =>
              /\ \E i \in OwnRows : ledger[i].status = "completed"
              /\ \A i \in OwnRows : ledger[i].status # "failed"

\* a sync has returned as completed after the database refused one of
\* several records, which had a row from an earlier sync
C26_Witness ==
    /\ Done /\ exc = "" /\ refused # {}
    /\ Len(merged_players) >= 2
    /\ \E i \in refused : ExternalId(merged_players[i], League) \in DOMAIN players

\* C27: a sync that has returned after an exception left the merge or the
\* persist stage wrote, after its 'started' row, one row only: status
\* 'failed', records_synced 0, the exception's text as error message; the
\* last entry of the outcome's errors carries the same text; there is no
\* 'completed' row.
C27_FatalSyncMarkedFailed ==
    (Done /\ exc # "" /\ "quit" \notin faults) =>
        /\ Cardinality(OwnRows) = 1
        /\ \A i \in OwnRows :
              /\ ledger[i].status = "failed"
              /\ ledger[i].records_synced = 0
              /\ ledger[i].error_message = Some(exc)
        /\ results["errors"] # <<>>
        /\ results["errors"][Len(results["errors"])] = <<"Sync failed", exc>>

\* a sync has returned after the commit of several merged records raised
C27_Witness ==
    /\ Done /\ "commit" \in faults
    /\ results["total_players"] >= 2
    /\ \E i \in OwnRows : ledger[i].status = "failed"

\* the candidates the sources of this sync returned
Fetched == UNION {{source_data[i][2][j] : j \in 1..Len(source_data[i][2])} :
                  i \in 1..Len(source_data)}

\* C29: every 'completed' row of this sync has as records_synced the number
\* of distinct match keys among the fetched candidates, which is the number
\* of merged records and the outcome's total_players, also when the database
\* refused some of the records.
C29_CountIsMergedRecords ==
    \A i \in OwnRows :
        ledger[i].status = "completed" =>
            /\ ledger[i].records_synced = Cardinality({KeyOf(c) : c \in Fetched})
            /\ ledger[i].records_synced = Len(merged_players)
            /\ ledger[i].records_synced = results["total_players"]

\* a sync is recorded as completed with more records than it stored
C29_Witness ==
    /\ Done /\ refused # {}
    /\ \E i \in OwnRows :
          /\ ledger[i].status = "completed"
          /\ ledger[i].records_synced >= 2
          /\ ledger[i].records_synced >
                Cardinality({id \in DOMAIN players : players[id].last_updated > 0})

\* C28: in the list _merge_player_data returns, a record has a rating
\* exactly when some candidate of its cluster had a non-null rating; and at
\* every point a record without rating has no per-source record with a
\* usable rating, so that the back-fill returns every record as folded.
C28_RatingIffSupplied ==
    /\ \A c \in Clusters :
          /\ ("rating" \in DOMAIN Canonical(c)) <=> (Suppliers(ClusterKey(c), "rating") # {})
          /\ "rating" \notin DOMAIN Canonical(c) => Rated(Canonical(c)) = {}
    /\ md_pc = "returned" =>
          \A c \in Clusters :
              /\ ("rating" \in DOMAIN md_final_list[c])
                    <=> (Suppliers(ClusterKey(c), "rating") # {})
              /\ md_final_list[c] = Canonical(c)

\* a list of two records has been returned, one with a rating and one, fed
\* by two sources, without
C28_Witness ==
    /\ md_pc = "returned"
    /\ Len(md_final_list) = 2
    /\ \E c \in Clusters : "rating" \in DOMAIN md_final_list[c]
    /\ \E c \in Clusters :
          /\ "rating" \notin DOMAIN md_final_list[c]
          /\ Cardinality(DOMAIN md_final_list[c]["sources"]) = 2

-----------------------------------------------------------------------------
(* The properties of the response cache *)

\* key has an entry and its expiry is strictly later than t
Unexpired(key, t) == key \in DOMAIN cache /\ cache[key].expiry > t

\* C21: a cache_get of key at time t returned the stored value when key had
\* an entry with expiry strictly later than t, and absent otherwise, also
\* when the expired entry was still in the table; and no cache_get changes
\* the table.
C21_GetIffUnexpired ==
    /\ [](cache_call.op = "get" =>
            IF Unexpired(cache_call.key, cache_call.at)
            THEN cache_call.result = Some(cache[cache_call.key].value)
            ELSE cache_call.result = None)
    /\ [][(\E key \in CacheKeys : CacheGet(key)) => cache' = cache]_vars

\* a cache_get has reported absent for an entry that is in the table and
\* expires at the very time of the call
C21_Witness ==
    /\ cache_call.op = "get"
    /\ cache_call.result = None
    /\ cache_call.key \in DOMAIN cache
    /\ cache[cache_call.key].expiry = cache_call.at
    /\ cache[cache_call.key].created_at < cache_call.at

\* C22: a clear_expired_cache at time t removes every entry for which a
\* cache_get at t reports absent, keeps every entry whose expiry is strictly
\* later than t as it is, and returns the number of entries it removed.
C22_SweepRemovesWhatReadersSeeExpired ==
    [][ClearExpired =>
          /\ \A k \in DOMAIN cache :
                /\ IsNone(cache_get(cache, k, clock)) => k \notin DOMAIN cache'
                /\ cache[k].expiry > clock => (k \in DOMAIN cache' /\ cache'[k] = cache[k])
          /\ DOMAIN cache' \subseteq DOMAIN cache
          /\ cache_call'.result = Cardinality(DOMAIN cache \ DOMAIN cache')]_vars

\* C23: at every time, whatever cache_get, clear_expired_cache and cache_set
\* calls on other keys came in between, a key whose last cache_set stored v
\* reads as v before that entry's expiry and as absent after it; and so did
\* the last cache_get.
C23_TtlCorrect ==
    /\ \A k \in DOMAIN cache_sets :
          /\ clock < cache_sets[k].expiry =>
                cache_get(cache, k, clock) = Some(cache_sets[k].value)
          /\ clock > cache_sets[k].expiry => cache_get(cache, k, clock) = None
    /\ (cache_call.op = "get" /\ cache_call.key \in DOMAIN cache_sets) =>
          LET e == cache_sets[cache_call.key] IN
          /\ cache_call.at < e.expiry => cache_call.result = Some(e.value)
          /\ cache_call.at > e.expiry => cache_call.result = None

\* a sweep has removed an expired entry while another key, set earlier,
\* is still before its expiry
C23_Witness ==
    /\ cache_call.op = "sweep"
    /\ cache_call.result >= 1
    /\ \E k \in DOMAIN cache :
          /\ cache[k].created_at < clock
          /\ cache[k].expiry > clock
          /\ cache_get(cache, k, clock) = Some(cache_sets[k].value)

\* C24: every entry of the cache table has an expiry strictly later than
\* its creation time, whatever ttl_seconds it was set with.
C24_ExpiryAfterCreation ==
    \A k \in DOMAIN cache : cache[k].expiry > cache[k].created_at

\* C30: a make_request with caching that finds a non-empty unexpired value
\* returns it, issues no request and leaves the table as it is; one whose
\* request fails or times out returns nothing and leaves the table as it
\* is; and whenever make_request changes the table it is with caching on,
\* after a successful response, and in the entry of its URL only.
C30_CacheWrittenOnSuccessOnly ==
    [][\A resp \in Responses, use_cache \in BOOLEAN :
          MakeRequest("u1", use_cache, resp) =>
              LET hit == use_cache /\ Unexpired("u1", clock) /\ cache["u1"].value # "" IN
              /\ hit => /\ cache_call'.result = Some(cache["u1"].value)
                        /\ ~cache_call'.requested
                        /\ cache' = cache
              /\ (~hit /\ resp.kind # "ok") =>
                        /\ cache_call'.result = None
                        /\ cache_call'.requested
                        /\ cache' = cache
              /\ cache' # cache =>
                        /\ use_cache /\ resp.kind = "ok" /\ cache_call'.requested
                        /\ \A k \in DOMAIN cache \ {"u1"} :
                              k \in DOMAIN cache' /\ cache'[k] = cache[k]]_vars

\* a make_request has been answered from an entry an earlier make_request
\* stored, without a request
C30_Witness ==
    /\ cache_call.op = "request"
    /\ ~cache_call.requested
    /\ cache_call.result = Some("p")
    /\ cache["u1"].created_at < cache_call.at
    /\ cache["u1"].expiry = cache["u1"].created_at + CACHE_TTL_SECONDS

====
